---- MODULE Spec2Model ----
(***************************************************************************)
(* Model of the skill installer (skill-creator/scripts/install_skill.py).  *)
(* The file system is a finite map from absolute paths (sequences of path  *)
(* components) to nodes; each invocation of main() is a process walking    *)
(* through install_skill one file-system call at a time.                   *)
(***************************************************************************)
EXTENDS Naturals, Sequences, FiniteSets, TLC

VARIABLES
    fs,          \* the file system: [existing paths -> node]
    pc,          \* pc[p]: position of invocation p in main()/install_skill()
    argv,        \* argv[p]: the command line of invocation p
    skill_path,  \* skill_path[p]: the resolved source path (line 47)
    status,      \* status[p]: which message the invocation printed last
    result,      \* result[p]: the value install_skill returned
    exitCode,    \* exitCode[p]: <<>> while running, <<n>> after sys.exit(n)
    obs,         \* obs[p]: what invocation p has done so far (observation)
    procs,       \* the invocations that can run (one, or two side by side)
    hist         \* what the invocation that ended last reported (observation)

vars == <<fs, pc, argv, skill_path, status, result, exitCode, obs, procs, hist>>

(***************************************************************************)
(* Bounds of the model.                                                    *)
(***************************************************************************)
MaxReprompts == 1    \* unusable answers given to one confirmation prompt
MaxSymlinks == 3     \* symbolic links followed while resolving one path

Procs == {1, 2}

(***************************************************************************)
(* Paths and nodes.                                                        *)
(***************************************************************************)
DirNode == [kind |-> "dir", target |-> <<>>]
FileNode == [kind |-> "file", target |-> <<>>]
LinkNode(t) == [kind |-> "link", target |-> t]

Home == <<"home">>
Cwd == <<"cwd">>
SrcA == <<"src", "a">>
AltA == <<"alt", "a">>
GoneA == <<"gone", "a">>
Loop == <<"<loop>">>   \* result of resolving a path through a symlink loop

Parent(p) == SubSeq(p, 1, Len(p) - 1)
Name(p) == p[Len(p)]
IsPrefix(p, q) == Len(p) <= Len(q) /\ SubSeq(q, 1, Len(p)) = p

MkFs(S) == [p \in {e[1] : e \in S} |-> (CHOOSE e \in S : e[1] = p)[2]]
Entries(f) == {<<p, f[p]>> : p \in DOMAIN f}

(***************************************************************************)
(* os.path.realpath, non-strict: follow every symbolic link on the way,    *)
(* keep components that do not exist.                                      *)
(***************************************************************************)
RECURSIVE RealPathFrom(_, _, _, _)
RealPathFrom(f, cur, rest, fuel) ==
    IF rest = <<>> THEN cur
    ELSE LET cand == Append(cur, Head(rest)) IN
         IF cand \in DOMAIN f /\ f[cand].kind = "link"
         THEN IF fuel = 0 THEN Loop
              ELSE RealPathFrom(f, <<>>, f[cand].target \o Tail(rest), fuel - 1)
         ELSE RealPathFrom(f, cand, Tail(rest), fuel)

RealPath(f, p) == RealPathFrom(f, <<>>, p, MaxSymlinks)

\* where the entry named by p itself lives (lstat: the last component is not followed)
LPath(f, p) ==
    LET par == RealPath(f, Parent(p)) IN
    IF par = Loop THEN Loop ELSE Append(par, Name(p))

\* Path.exists(): stat() follows links; ENOENT, ENOTDIR and ELOOP give False
exists(f, p) == RealPath(f, p) \in DOMAIN f

\* mutant of is_dir: anything that exists passes for a directory
is_dir_if_exists(f, p) == RealPath(f, p) \in DOMAIN f

\* Path.is_dir()
is_dir(f, p) == RealPath(f, p) \in DOMAIN f /\ f[RealPath(f, p)].kind = "dir"

\* Path.is_symlink()
is_symlink(f, p) == LPath(f, p) \in DOMAIN f /\ f[LPath(f, p)].kind = "link"

\* Path.unlink(): removes the entry itself, never what a link points to
unlink(f, p) == [q \in DOMAIN f \ {LPath(f, p)} |-> f[q]]

\* mutant of rmtree: empties the directory and leaves it standing
rmtree_contents_only(f, p) ==
    [q \in {r \in DOMAIN f : r = LPath(f, p) \/ ~IsPrefix(LPath(f, p), r)} |-> f[q]]

\* shutil.rmtree(): removes the directory and everything below it; links
\* inside are removed, not followed
rmtree(f, p) == [q \in {r \in DOMAIN f : ~IsPrefix(LPath(f, p), r)} |-> f[q]]

\* the outcome of a file-system call that can fail: the new file system, or
\* the old one and ok = FALSE when the call raised
Done(f) == [ok |-> TRUE, fs |-> f]
Raised(f) == [ok |-> FALSE, fs |-> f]

\* Path.mkdir(parents=True, exist_ok=True)
RECURSIVE mkdir(_, _)
mkdir(f, p) ==
    IF p = <<>> \/ is_dir(f, p) THEN Done(f)
    ELSE IF LPath(f, p) = Loop \/ LPath(f, p) \in DOMAIN f THEN Raised(f)
    ELSE LET up == mkdir(f, Parent(p)) IN
         IF ~up.ok \/ ~(Parent(p) = <<>> \/ is_dir(up.fs, Parent(p))) THEN Raised(f)
         ELSE Done(MkFs(Entries(up.fs) \cup {<<LPath(up.fs, p), DirNode>>}))

\* Path.symlink_to(target): os.symlink raises when the entry already exists,
\* when its directory is missing, or when the platform refuses (osOk = FALSE)
symlink_to(f, p, target, osOk) ==
    IF osOk /\ LPath(f, p) # Loop /\ LPath(f, p) \notin DOMAIN f
            /\ is_dir(f, Parent(p))
    THEN Done(MkFs(Entries(f) \cup {<<LPath(f, p), LinkNode(target)>>}))
    ELSE Raised(f)

(***************************************************************************)
(* get_confirmation: the answer typed at the prompt, lower-cased and       *)
(* stripped.  Answers are sequences of characters.                         *)
(***************************************************************************)
LowerChar(c) ==
    CASE c = "Y" -> "y" [] c = "E" -> "e" [] c = "S" -> "s"
      [] c = "N" -> "n" [] c = "O" -> "o" [] OTHER -> c

\* mutant of lower: the answer is compared as typed
lower_as_typed(s) == s

lower(s) == [i \in 1..Len(s) |-> LowerChar(s[i])]

RECURSIVE lstrip(_)
lstrip(s) == IF s # <<>> /\ Head(s) = " " THEN lstrip(Tail(s)) ELSE s

RECURSIVE rstrip(_)
rstrip(s) ==
    IF s # <<>> /\ s[Len(s)] = " " THEN rstrip(SubSeq(s, 1, Len(s) - 1)) ELSE s

\* mutant of strip: only leading blanks are removed
strip_leading_only(s) == lstrip(s)

strip(s) == rstrip(lstrip(s))

\* mutant of get_confirmation: whatever is not a refusal counts as consent
get_confirmation_unless_no(response) ==
    LET r == strip(lower(response)) IN
    IF r \in {<<"n">>, <<"n", "o">>} THEN "no" ELSE "yes"

\* one pass of the loop of get_confirmation: "yes", "no", or "again"
get_confirmation(response) ==
    LET r == strip(lower(response)) IN
    IF r \in {<<"y">>, <<"y", "e", "s">>} THEN "yes"
    ELSE IF r \in {<<"n">>, <<"n", "o">>} THEN "no"
    ELSE "again"

(***************************************************************************)
(* The registries.                                                         *)
(***************************************************************************)
\* mutant of dest_base: every install goes to the personal registry
dest_base_home_only(itype) == Home \o <<".claude", "skills">>

\* lines 76-79: Path.home()/".claude"/"skills" or Path.cwd()/".claude"/"skills"
dest_base(itype) ==
    IF itype = "personal" THEN Home \o <<".claude", "skills">>
    ELSE Cwd \o <<".claude", "skills">>

\* lines 136-139: the install type a flag selects
install_type(flag) == IF flag = "--personal" THEN "personal" ELSE "project"

\* mutant of dest_path: the entry is always named "b"
dest_path_other_name(itype, source) == Append(dest_base(itype), "b")

\* lines 74 and 81: dest_base / skill_path.name
dest_path(itype, source) == Append(dest_base(itype), Name(source))

HomeBase == dest_base("personal")
CwdBase == dest_base("project")
HomeA == Append(HomeBase, "a")
HomeB == Append(HomeBase, "b")
CwdA == Append(CwdBase, "a")
Manifest(dir) == Append(dir, "SKILL.md")

(***************************************************************************)
(* Initial file systems: every combination of a state of the source        *)
(* /src/a, of the personal registry and of the project registry.  /alt/a   *)
(* is a second skill folder of the same name.                              *)
(***************************************************************************)
Skill(dir) == {<<dir, DirNode>>, <<Manifest(dir), FileNode>>}

Fixed ==
    {<<Home, DirNode>>, <<Cwd, DirNode>>, <<<<"src">>, DirNode>>,
     <<<<"alt">>, DirNode>>, <<Append(AltA, "x"), FileNode>>} \cup Skill(AltA)

SourceStates ==
    { Skill(SrcA), {<<SrcA, DirNode>>}, {<<SrcA, FileNode>>}, {} }

BaseDirs(root) ==
    {<<Append(root, ".claude"), DirNode>>,
     <<root \o <<".claude", "skills">>, DirNode>>}

\* the states of one registry entry: Absent, Linked (to the source, to another
\* folder, dangling), Materialized (a real skill folder holding a stray file
\* and a nested skill folder of the same name), or a plain file
EntryStates(entry) ==
    { {},
      {<<entry, LinkNode(SrcA)>>},
      {<<entry, LinkNode(AltA)>>},
      {<<entry, LinkNode(GoneA)>>},
      Skill(entry) \cup {<<Append(entry, "x"), FileNode>>}
          \cup Skill(Append(entry, Name(entry))),
      {<<entry, FileNode>>} }

HomeStates ==
    { {}, {<<Append(Home, ".claude"), FileNode>>} }
    \cup { BaseDirs(Home) \cup e \cup b :
             e \in EntryStates(HomeA),
             b \in { {}, {<<HomeB, LinkNode(AltA)>>} } }

CwdStates ==
    { {} } \cup { BaseDirs(Cwd) \cup e :
                    e \in { {}, {<<CwdA, LinkNode(AltA)>>},
                            {<<CwdA, DirNode>>, <<Append(CwdA, "x"), FileNode>>} } }

InitialFs ==
    { MkFs(Fixed \cup s \cup h) : s \in SourceStates, h \in HomeStates }
    \cup { MkFs(Fixed \cup Skill(SrcA) \cup BaseDirs(Home) \cup c) : c \in CwdStates }

(***************************************************************************)
(* Inputs.                                                                 *)
(***************************************************************************)
SourceArgs == {SrcA, AltA, GoneA, HomeA, Append(HomeA, "a"), HomeB}
Flags == {"--personal", "--project", "--force"}
\* n is len(sys.argv) - 1, the number of arguments given
CommandLines ==
    [n : {2}, path : SourceArgs, flag : Flags]
    \cup {[n |-> 0, path |-> <<>>, flag |-> ""], [n |-> 1, path |-> SrcA, flag |-> ""]}
Responses ==
    { <<"y">>, <<"Y", "E", "S">>, <<" ", "y", "e", "s", " ">>,
      <<"n">>, <<"N", "o">>, <<"n", "o", " ">>,
      <<>>, <<"o", "k">>, <<"y", " ", "e", "s">> }
Verdicts == BOOLEAN   \* validate_skill(path): (valid, message)

\* hist: the message and exit status of an invocation that tried to create the
\* link, with its source and install type and whether it had removed an entry;
\* NoHist after any other invocation
NoHist ==
    [status |-> "none", code |-> <<>>, src |-> <<>>, itype |-> "", removed |-> FALSE]

\* obs[p]: the file system (fs0) and hist (prev) when the invocation started, the
\* validator's verdict, whether dest_path was looked at and found occupied, the
\* last answer typed at the prompt, the number of unusable answers, whether an
\* entry was removed, and whether the platform let the link be created
\* checks lists the precondition checks made so far, in the order made;
\* seen is the entry found at dest_path by the existence check, gone the entry
\* the removal step deleted
AbsentNode == [kind |-> "absent", target |-> <<>>]
NodeAt(f, q) == IF q \in DOMAIN f THEN f[q] ELSE AbsentNode

NoObs ==
    [fs0 |-> <<>>, prev |-> NoHist, verdict |-> "none", validations |-> 0,
     destRead |-> FALSE, collision |-> FALSE, answer |-> <<"-">>, reprompts |-> 0,
     removed |-> FALSE, linkTried |-> FALSE, osOk |-> FALSE,
     seen |-> AbsentNode, gone |-> AbsentNode, checks |-> <<>>]

InitProgram ==
    /\ fs \in InitialFs
    /\ pc = [p \in Procs |-> "idle"]
    /\ argv = [p \in Procs |-> <<>>]
    /\ skill_path = [p \in Procs |-> <<>>]
    /\ status = [p \in Procs |-> "none"]
    /\ result = [p \in Procs |-> FALSE]
    /\ exitCode = [p \in Procs |-> <<>>]
    /\ obs = [p \in Procs |-> NoObs]
    /\ hist = NoHist

(***************************************************************************)
(* The steps of one invocation.                                            *)
(***************************************************************************)
Upd(v, p, x) == [v EXCEPT ![p] = x]
Note(p, field, x) == obs' = [obs EXCEPT ![p][field] = x]

itype(p) == install_type(argv[p].flag)
dest(p) == dest_path(itype(p), skill_path[p])

\* mutant of exit_status: the status does not depend on the outcome
exit_status_always_zero(success) == 0

\* line 150: the exit status for what install_skill returned
exit_status(success) == IF success THEN 0 ELSE 1

\* sys.exit(code), or an exception nobody catches (exit status 1)
Exits(p, code) ==
    /\ pc' = Upd(pc, p, "done")
    /\ exitCode' = Upd(exitCode, p, <<code>>)
    /\ hist' = IF obs[p].linkTried /\ pc[p] = "exit"
               THEN [status |-> status[p], code |-> <<code>>, src |-> skill_path[p],
                     itype |-> itype(p), removed |-> obs[p].removed]
               ELSE NoHist

\* install_skill prints msg and returns False
Fails(p, msg) ==
    /\ status' = Upd(status, p, msg)
    /\ result' = Upd(result, p, FALSE)
    /\ pc' = Upd(pc, p, "exit")

Goes(p, label) == pc' = Upd(pc, p, label)

\* mutant of valid_flag: an unknown flag falls through to the project install
valid_flag_any(flag) == TRUE

\* lines 136-143: the flags main accepts
valid_flag(flag) == flag \in {"--personal", "--project"}

\* main, lines 121-147: the usage and flag checks
Main(p, av) ==
    /\ p \in procs
    /\ pc[p] \in {"idle", "done"}
    /\ argv' = Upd(argv, p, av)
    /\ obs' = Upd(obs, p, [NoObs EXCEPT !.fs0 = fs, !.prev = hist])
    /\ skill_path' = Upd(skill_path, p, <<>>)
    /\ result' = Upd(result, p, FALSE)
    /\ IF av.n < 2
       THEN /\ status' = Upd(status, p, "Usage")
            /\ pc' = Upd(pc, p, "done")
            /\ exitCode' = Upd(exitCode, p, <<1>>)
            /\ hist' = NoHist
       ELSE IF ~valid_flag(av.flag)
       THEN /\ status' = Upd(status, p, "InvalidFlag")
            /\ pc' = Upd(pc, p, "done")
            /\ exitCode' = Upd(exitCode, p, <<1>>)
            /\ hist' = NoHist
       ELSE /\ status' = Upd(status, p, "none")
            /\ pc' = Upd(pc, p, "resolve")
            /\ exitCode' = Upd(exitCode, p, <<>>)
            /\ hist' = hist
    /\ UNCHANGED <<fs, procs>>

\* line 47: Path(skill_path).resolve().  On a symlink loop the interpreter
\* either raises RuntimeError (before 3.13) or returns the path unresolved.
Resolve(p, raises) ==
    /\ pc[p] = "resolve"
    /\ LET r == RealPath(fs, argv[p].path) IN
       IF r = Loop /\ raises
       THEN /\ status' = Upd(status, p, "Traceback")
            /\ Exits(p, 1)
            /\ UNCHANGED skill_path
       ELSE /\ skill_path' = Upd(skill_path, p, IF r = Loop THEN argv[p].path ELSE r)
            /\ Goes(p, "exists")
            /\ UNCHANGED <<status, exitCode, hist>>
    /\ UNCHANGED <<fs, argv, result, obs, procs>>

\* lines 50-52
CheckExists(p) ==
    /\ pc[p] = "exists"
    /\ Note(p, "checks", Append(obs[p].checks, "exists"))
    /\ IF exists(fs, skill_path[p])
       THEN Goes(p, "isdir") /\ UNCHANGED <<status, result>>
       ELSE Fails(p, "NotFound")
    /\ UNCHANGED <<fs, argv, skill_path, exitCode, procs, hist>>

\* lines 54-56
CheckIsDir(p) ==
    /\ pc[p] = "isdir"
    /\ Note(p, "checks", Append(obs[p].checks, "isdir"))
    /\ IF is_dir(fs, skill_path[p])
       THEN Goes(p, "manifest") /\ UNCHANGED <<status, result>>
       ELSE Fails(p, "NotADirectory")
    /\ UNCHANGED <<fs, argv, skill_path, exitCode, procs, hist>>

\* mutant of has_manifest: the SKILL.md test always passes
has_manifest_any(f, dir) == TRUE

\* lines 59-62: skill_md.exists()
has_manifest(f, dir) == exists(f, Manifest(dir))

\* lines 59-62
CheckManifest(p) ==
    /\ pc[p] = "manifest"
    /\ Note(p, "checks", Append(obs[p].checks, "manifest"))
    /\ IF has_manifest(fs, skill_path[p])
       THEN Goes(p, "validate") /\ UNCHANGED <<status, result>>
       ELSE Fails(p, "MissingManifest")
    /\ UNCHANGED <<fs, argv, skill_path, exitCode, procs, hist>>

\* lines 65-71: the validator's verdict decides
Validate(p, valid) ==
    /\ pc[p] = "validate"
    /\ obs' = [obs EXCEPT ![p].verdict = IF valid THEN "pass" ELSE "fail",
                          ![p].validations = obs[p].validations + 1,
                          ![p].checks = Append(obs[p].checks, "validator")]
    /\ IF valid
       THEN Goes(p, "collision") /\ UNCHANGED <<status, result>>
       ELSE Fails(p, "ValidationFailed")
    /\ UNCHANGED <<fs, argv, skill_path, exitCode, procs, hist>>

\* mutant of collides: a dangling link does not count as a collision
collides_exists_only(f, d) == exists(f, d)

\* line 84: dest_path.exists() or dest_path.is_symlink()
collides(f, d) == exists(f, d) \/ is_symlink(f, d)

\* lines 73-90: is there something at dest_path already?
CheckCollision(p) ==
    /\ pc[p] = "collision"
    /\ LET hit == collides(fs, dest(p)) IN
       /\ obs' = [obs EXCEPT ![p].destRead = TRUE, ![p].collision = hit,
                             ![p].seen = NodeAt(fs, LPath(fs, dest(p)))]
       /\ Goes(p, IF hit THEN "confirm" ELSE "mkdir")
    /\ UNCHANGED <<fs, argv, skill_path, status, result, exitCode, procs, hist>>

\* lines 92-94 and get_confirmation, lines 24-33: one answer to the prompt
Confirm(p, response) ==
    /\ pc[p] = "confirm"
    /\ LET a == get_confirmation(response) IN
       CASE a = "yes" ->
              /\ Note(p, "answer", response)
              /\ Goes(p, "remove")
              /\ UNCHANGED <<status, result>>
         [] a = "no" ->
              /\ Note(p, "answer", response)
              /\ Fails(p, "Cancelled")
         [] OTHER ->
              /\ obs[p].reprompts < MaxReprompts
              /\ obs' = [obs EXCEPT ![p].answer = response,
                                    ![p].reprompts = obs[p].reprompts + 1]
              /\ UNCHANGED <<pc, status, result>>
    /\ UNCHANGED <<fs, argv, skill_path, exitCode, procs, hist>>

\* mutant of remove_existing: the directory test comes first and follows a
\* link, so the folder a link points to is emptied and the link stays
remove_existing_follow(f, d) ==
    IF is_dir(f, d) THEN Done(rmtree(f, RealPath(f, d)))
    ELSE IF LPath(f, d) \in DOMAIN f THEN Done(unlink(f, d))
    ELSE Raised(f)

\* mutant of remove_existing: only real directories and files are removed, a
\* symbolic link is left in place
remove_existing_keep_link(f, d) ==
    IF is_symlink(f, d) THEN Done(f)
    ELSE IF is_dir(f, d) THEN Done(rmtree(f, d))
    ELSE IF LPath(f, d) \in DOMAIN f THEN Done(unlink(f, d))
    ELSE Raised(f)

\* mutant of remove_existing: an entry that is no longer there counts as removed
remove_existing_missing_ok(f, d) ==
    IF is_symlink(f, d) THEN Done(unlink(f, d))
    ELSE IF is_dir(f, d) THEN Done(rmtree(f, d))
    ELSE IF LPath(f, d) \in DOMAIN f THEN Done(unlink(f, d))
    ELSE Done(f)

\* lines 96-104: what removing the existing entry does to the file system
remove_existing(f, d) ==
    IF is_symlink(f, d) THEN Done(unlink(f, d))
    ELSE IF is_dir(f, d) THEN Done(rmtree(f, d))
    ELSE IF LPath(f, d) \in DOMAIN f THEN Done(unlink(f, d))
    ELSE Raised(f)

Remove(p) ==
    /\ pc[p] = "remove"
    /\ LET r == remove_existing(fs, dest(p)) IN
       IF r.ok
       THEN /\ fs' = r.fs
            /\ obs' = [obs EXCEPT ![p].removed = TRUE,
                                  ![p].gone = NodeAt(fs, LPath(fs, dest(p)))]
            /\ Goes(p, "mkdir")
            /\ UNCHANGED <<status, exitCode, hist>>
       ELSE /\ status' = Upd(status, p, "Traceback")
            /\ Exits(p, 1)
            /\ UNCHANGED <<fs, obs>>
    /\ UNCHANGED <<argv, skill_path, result, procs>>

\* line 107
Mkdir(p) ==
    /\ pc[p] = "mkdir"
    /\ LET r == mkdir(fs, dest_base(itype(p))) IN
       IF r.ok
       THEN /\ fs' = r.fs
            /\ Goes(p, "symlink")
            /\ UNCHANGED <<status, exitCode, hist>>
       ELSE /\ status' = Upd(status, p, "Traceback")
            /\ Exits(p, 1)
            /\ UNCHANGED fs
    /\ UNCHANGED <<argv, skill_path, result, obs, procs>>

\* lines 109-118
Symlink(p, osOk) ==
    /\ pc[p] = "symlink"
    /\ LET r == symlink_to(fs, dest(p), skill_path[p], osOk) IN
       /\ fs' = r.fs
       /\ status' = Upd(status, p, IF r.ok THEN "Installed" ELSE "SymlinkError")
       /\ result' = Upd(result, p, r.ok)
    /\ obs' = [obs EXCEPT ![p].linkTried = TRUE, ![p].osOk = osOk]
    /\ Goes(p, "exit")
    /\ UNCHANGED <<argv, skill_path, exitCode, procs, hist>>

\* lines 149-150: sys.exit(0 if success else 1)
Exit(p) ==
    /\ pc[p] = "exit"
    /\ Exits(p, exit_status(result[p]))
    /\ UNCHANGED <<fs, argv, skill_path, status, result, obs, procs>>

Next ==
    \E p \in Procs :
        \/ \E av \in CommandLines : Main(p, av)
        \/ \E raises \in BOOLEAN : Resolve(p, raises)
        \/ CheckExists(p)
        \/ CheckIsDir(p)
        \/ CheckManifest(p)
        \/ \E valid \in Verdicts : Validate(p, valid)
        \/ CheckCollision(p)
        \/ \E response \in Responses : Confirm(p, response)
        \/ Remove(p)
        \/ Mkdir(p)
        \/ \E osOk \in BOOLEAN : Symlink(p, osOk)
        \/ Exit(p)

\* one invocation at a time
Init == InitProgram /\ procs = {1}

Spec == Init /\ [][Next]_vars

\* The interpreter goes on to the next statement of a started invocation by
\* itself; starting an invocation and answering the prompt (input(), line 27,
\* blocks without a timeout) are up to the user.  Every statement moves the
\* invocation to another position.
Positions ==
    {"idle", "resolve", "exists", "isdir", "manifest", "validate", "collision",
     "confirm", "remove", "mkdir", "symlink", "exit", "done"}

Runs(p) ==
    /\ pc[p] \in Positions \ {"idle", "confirm", "done"}
    /\ \E next \in Positions \ {pc[p]} : pc' = [pc EXCEPT ![p] = next]

\* one invocation, followed from its start to its end
NextLive ==
    \E p \in Procs :
        \/ \E av \in CommandLines : pc[p] = "idle" /\ Main(p, av)
        \/ \E raises \in BOOLEAN : Resolve(p, raises)
        \/ CheckExists(p)
        \/ CheckIsDir(p)
        \/ CheckManifest(p)
        \/ \E valid \in Verdicts : Validate(p, valid)
        \/ CheckCollision(p)
        \/ \E response \in Responses : Confirm(p, response)
        \/ Remove(p)
        \/ Mkdir(p)
        \/ \E osOk \in BOOLEAN : Symlink(p, osOk)
        \/ Exit(p)

SpecLive == Init /\ [][NextLive]_vars /\ \A p \in Procs : WF_pc(Runs(p))

(***************************************************************************)
(* The validate command (skill-creator/scripts/validate_skill.py).         *)
(***************************************************************************)
\* n is len(sys.argv) - 1; the command takes the folder and no flag
ValidateCommandLines ==
    [n : {1}, path : SourceArgs, flag : {""}]
    \cup {[n |-> 0, path |-> <<>>, flag |-> ""]}

\* sys.exit(code) of the validate command
VExits(p, msg, code) ==
    /\ status' = Upd(status, p, msg)
    /\ exitCode' = Upd(exitCode, p, <<code>>)
    /\ pc' = Upd(pc, p, "v_done")

\* validate_skill.py main, lines 17-22: the usage check
VMain(p, av) ==
    /\ p \in procs
    /\ pc[p] \in {"idle", "done", "v_done"}
    /\ argv' = Upd(argv, p, av)
    /\ obs' = Upd(obs, p, [NoObs EXCEPT !.fs0 = fs])
    /\ skill_path' = Upd(skill_path, p, <<>>)
    /\ result' = Upd(result, p, FALSE)
    /\ IF av.n < 1
       THEN VExits(p, "Usage", 1)
       ELSE /\ status' = Upd(status, p, "none")
            /\ exitCode' = Upd(exitCode, p, <<>>)
            /\ pc' = Upd(pc, p, "v_resolve")
    /\ UNCHANGED <<fs, procs, hist>>

\* line 24: Path(sys.argv[1]).resolve()
VResolve(p, raises) ==
    /\ pc[p] = "v_resolve"
    /\ LET r == RealPath(fs, argv[p].path) IN
       IF r = Loop /\ raises
       THEN VExits(p, "Traceback", 1) /\ UNCHANGED skill_path
       ELSE /\ skill_path' = Upd(skill_path, p, IF r = Loop THEN argv[p].path ELSE r)
            /\ Goes(p, "v_exists")
            /\ UNCHANGED <<status, exitCode>>
    /\ UNCHANGED <<fs, argv, result, obs, procs, hist>>

\* lines 27-29
VCheckExists(p) ==
    /\ pc[p] = "v_exists"
    /\ IF exists(fs, skill_path[p])
       THEN Goes(p, "v_isdir") /\ UNCHANGED <<status, exitCode>>
       ELSE VExits(p, "NotFound", 1)
    /\ UNCHANGED <<fs, argv, skill_path, result, obs, procs, hist>>

\* lines 31-33
VCheckIsDir(p) ==
    /\ pc[p] = "v_isdir"
    /\ IF is_dir(fs, skill_path[p])
       THEN Goes(p, "v_validate") /\ UNCHANGED <<status, exitCode>>
       ELSE VExits(p, "NotADirectory", 1)
    /\ UNCHANGED <<fs, argv, skill_path, result, obs, procs, hist>>

\* mutant of validate_exit: the verdict does not reach the exit status
validate_exit_always_zero(valid) == 0

\* lines 41-46: the exit status for the validator's verdict
validate_exit(valid) == IF valid THEN 0 ELSE 1

\* lines 36-46: the validator is called on the folder as it is
VValidate(p, valid) ==
    /\ pc[p] = "v_validate"
    /\ obs' = [obs EXCEPT ![p].verdict = IF valid THEN "pass" ELSE "fail",
                          ![p].validations = obs[p].validations + 1]
    /\ VExits(p, IF valid THEN "Valid" ELSE "ValidationFailed", validate_exit(valid))
    /\ UNCHANGED <<fs, argv, skill_path, result, procs, hist>>

NextValidate ==
    \E p \in Procs :
        \/ \E av \in ValidateCommandLines : VMain(p, av)
        \/ \E raises \in BOOLEAN : VResolve(p, raises)
        \/ VCheckExists(p)
        \/ VCheckIsDir(p)
        \/ \E valid \in Verdicts : VValidate(p, valid)

\* installs and validations on the same machine, one invocation at a time
NextBoth == Next \/ NextValidate

SpecValidate == Init /\ [][NextBoth]_vars

(***************************************************************************)
(* Two install commands started side by side against the personal         *)
(* registry, whose entry "a" is a link to /alt/a.  Each runs once; their    *)
(* steps interleave freely, as nothing in the code takes a lock.           *)
(***************************************************************************)
ConcCommandLines == [n : {2}, path : {SrcA, AltA}, flag : {"--personal"}]

InitConc ==
    /\ InitProgram
    /\ procs = Procs
    /\ fs = MkFs(Fixed \cup Skill(SrcA) \cup BaseDirs(Home) \cup {<<HomeA, LinkNode(AltA)>>})

NextConc ==
    \E p \in Procs :
        \/ \E av \in ConcCommandLines : pc[p] = "idle" /\ Main(p, av)
        \/ \E raises \in BOOLEAN : Resolve(p, raises)
        \/ CheckExists(p)
        \/ CheckIsDir(p)
        \/ CheckManifest(p)
        \/ \E valid \in Verdicts : Validate(p, valid)
        \/ CheckCollision(p)
        \/ \E response \in Responses : Confirm(p, response)
        \/ Remove(p)
        \/ Mkdir(p)
        \/ \E osOk \in BOOLEAN : Symlink(p, osOk)
        \/ Exit(p)

SpecConc == InitConc /\ [][NextConc]_vars

(***************************************************************************)
(* Vocabulary of the properties, stated on the file system itself.         *)
(***************************************************************************)
KindAt(f, q) == IF q \in DOMAIN f THEN f[q].kind ELSE "absent"
TargetAt(f, q) == IF q \in DOMAIN f THEN f[q].target ELSE <<>>
SubTree(f, root) == {<<q, f[q]>> : q \in {r \in DOMAIN f : IsPrefix(root, r)}}
Outside(f, root) == {<<q, f[q]>> : q \in {r \in DOMAIN f : ~IsPrefix(root, r)}}

YesResponses == {<<"y">>, <<"Y", "E", "S">>, <<" ", "y", "e", "s", " ">>}
NoResponses == {<<"n">>, <<"N", "o">>, <<"n", "o", " ">>}

\* invocation p got past the usage checks, and install_skill has returned
Entered(p) == pc[p] # "idle" /\ status[p] \notin {"Usage", "InvalidFlag"}
Returned(p) == Entered(p) /\ pc[p] \in {"exit", "done"}

\* the source as resolved when the invocation started, and its registry entry
Source(p) == RealPath(obs[p].fs0, argv[p].path)
Registry(p) ==
    IF argv[p].flag = "--personal" THEN <<"home", ".claude", "skills">>
    ELSE <<"cwd", ".claude", "skills">>
Entry(p) == Append(Registry(p), Name(Source(p)))
Resolved(p) == Returned(p) /\ Source(p) # Loop

PreconditionFailures ==
    {"NotFound", "NotADirectory", "MissingManifest", "ValidationFailed"}

\* C1: a step that removes anything from the file system is the removal step
\* of an invocation whose validator verdict was a success and whose prompt was
\* answered affirmatively
C1_RemovalOnlyAfterValidationAndConfirmation ==
    [][(\E q \in DOMAIN fs : q \notin DOMAIN fs')
         => \E p \in Procs : /\ pc[p] = "remove"
                             /\ pc'[p] = "mkdir"
                             /\ obs[p].verdict = "pass"
                             /\ obs[p].answer \in YesResponses]_vars

C1_Witness ==
    \E p \in Procs : /\ obs[p].removed
                     /\ obs[p].verdict = "pass"
                     /\ obs[p].answer \in YesResponses
                     /\ KindAt(obs[p].fs0, Entry(p)) = "dir"
                     /\ Entry(p) \notin DOMAIN fs

\* C2: once install_skill has returned, the source skill folder and everything
\* in it are as they were when the invocation started
C2_SourceUntouched ==
    \A p \in Procs :
        (Resolved(p) /\ KindAt(obs[p].fs0, Source(p)) = "dir")
            => SubTree(fs, Source(p)) = SubTree(obs[p].fs0, Source(p))

\* C3: a declined overwrite prompt ends the invocation with Cancelled, and the
\* file system is what it was when the invocation started
C3_DeclineChangesNothing ==
    \A p \in Procs :
        (Entered(p) /\ obs[p].answer \in NoResponses)
            => /\ obs[p].collision
               /\ pc[p] \in {"exit", "done"}
               /\ status[p] = "Cancelled"
               /\ ~result[p]
               /\ fs = obs[p].fs0
               /\ (pc[p] = "done" => exitCode[p] = <<1>>)

C3_Witness ==
    \E p \in Procs : /\ pc[p] = "done"
                     /\ status[p] = "Cancelled"
                     /\ obs[p].answer = <<"N", "o">>
                     /\ KindAt(fs, Entry(p)) = "dir"
                     /\ Append(Entry(p), "x") \in DOMAIN fs

\* C4: a source that does not exist, is not a directory, has no SKILL.md or
\* fails validation gives NotFound, NotADirectory, MissingManifest or
\* ValidationFailed respectively (and only then), install_skill returns False,
\* the exit status is 1 and the file system is what it was
C4_PreconditionFailuresChangeNothing ==
    \A p \in Procs :
        Resolved(p) =>
            LET f0 == obs[p].fs0
                src == Source(p)
                missing == KindAt(f0, src) = "absent"
                notDir == ~missing /\ KindAt(f0, src) # "dir"
                noManifest == KindAt(f0, src) = "dir"
                                /\ KindAt(f0, Append(src, "SKILL.md")) = "absent"
                invalid == obs[p].verdict = "fail"
            IN  /\ (status[p] = "NotFound") = missing
                /\ (status[p] = "NotADirectory") = notDir
                /\ (status[p] = "MissingManifest") = noManifest
                /\ (status[p] = "ValidationFailed") = invalid
                /\ (status[p] \in PreconditionFailures
                      => /\ fs = f0
                         /\ ~result[p]
                         /\ (pc[p] = "done" => exitCode[p] = <<1>>))

\* a source without SKILL.md, named against a registry that holds a directory
C4_Witness ==
    \E p \in Procs :
        /\ pc[p] = "done" /\ status[p] = "MissingManifest" /\ exitCode[p] = <<1>>
        /\ Source(p) = SrcA
        /\ KindAt(fs, Entry(p)) = "dir"

\* C5: when install_skill returns True, the entry <registry of the scope>/<name
\* of the resolved source> is a symbolic link to the resolved source, whatever
\* was there before, and the exit status is 0
C5_SuccessMeansLinked ==
    \A p \in Procs :
        (Resolved(p) /\ result[p])
            => /\ KindAt(fs, Entry(p)) = "link"
               /\ TargetAt(fs, Entry(p)) = Source(p)
               /\ (pc[p] = "done" => exitCode[p] = <<0>>)

\* a valid skill installed into an empty personal registry
C5_Witness ==
    \E p \in Procs :
        /\ pc[p] = "done" /\ exitCode[p] = <<0>>
        /\ argv[p] = [n |-> 2, path |-> SrcA, flag |-> "--personal"]
        /\ SubTree(obs[p].fs0, HomeBase) = {<<HomeBase, DirNode>>}
        /\ SubTree(fs, HomeBase) = {<<HomeBase, DirNode>>, <<HomeA, LinkNode(SrcA)>>}

\* C6: the removal step removes the destination entry and nothing else: the
\* entry and whatever is below it are gone, every other path keeps its node;
\* for a link or a plain file the entry is the only path removed, and the
\* folder a link pointed to keeps all its contents
C6_RemovalRemovesExactlyTheEntry ==
    [][\A p \in Procs :
          (pc[p] = "remove" /\ pc'[p] = "mkdir")
            => /\ SubTree(fs', Entry(p)) = {}
               /\ Outside(fs', Entry(p)) = Outside(fs, Entry(p))
               /\ (KindAt(fs, Entry(p)) \in {"link", "file"}
                     => DOMAIN fs \ DOMAIN fs' = {Entry(p)})
               /\ LET target == TargetAt(fs, Entry(p)) IN
                  (KindAt(fs, Entry(p)) = "link" /\ KindAt(fs, target) = "dir")
                     => SubTree(fs', target) = SubTree(fs, target)]_vars

\* a link to /alt/a was removed and /alt/a still holds its files
C6_Witness ==
    \E p \in Procs :
        /\ obs[p].removed /\ pc[p] = "mkdir"
        /\ KindAt(obs[p].fs0, Entry(p)) = "link"
        /\ TargetAt(obs[p].fs0, Entry(p)) = AltA
        /\ Entry(p) \notin DOMAIN fs
        /\ SubTree(fs, AltA) = Skill(AltA) \cup {<<Append(AltA, "x"), FileNode>>}

Scope(p) == IF argv[p].flag = "--personal" THEN "personal" ELSE "project"

\* the invocation follows a successful install of the same source to the same scope
Reinstall(p) ==
    /\ Resolved(p)
    /\ obs[p].prev.status = "Installed"
    /\ obs[p].prev.src = Source(p)
    /\ obs[p].prev.itype = Scope(p)

\* C7: installing a source again after a successful install of it to the same
\* scope, answering yes, succeeds (unless the platform refuses the link) and
\* leaves the file system exactly as the first install left it, the entry
\* being a link to the resolved source before and after
C7_ReinstallIsIdempotent ==
    \A p \in Procs :
        Reinstall(p) =>
            /\ KindAt(obs[p].fs0, Entry(p)) = "link"
            /\ TargetAt(obs[p].fs0, Entry(p)) = Source(p)
            /\ (obs[p].answer \in YesResponses /\ obs[p].linkTried /\ obs[p].osOk)
                 => /\ result[p]
                    /\ fs = obs[p].fs0
                    /\ (pc[p] = "done" => exitCode[p] = <<0>>)

C7_Witness ==
    \E p \in Procs :
        /\ Reinstall(p) /\ pc[p] = "done" /\ exitCode[p] = <<0>>
        /\ obs[p].answer \in YesResponses /\ obs[p].removed
        /\ fs = obs[p].fs0
        /\ KindAt(fs, HomeA) = "link" /\ TargetAt(fs, HomeA) = SrcA

\* the link was created by this invocation
LinkCreated(p) ==
    /\ obs[p].linkTried
    /\ KindAt(fs, Entry(p)) = "link"
    /\ TargetAt(fs, Entry(p)) = Source(p)

\* the entry was a link to a valid resolved source when the invocation started
AlreadyInstalled(p) ==
    /\ Resolved(p)
    /\ obs[p].verdict = "pass"
    /\ KindAt(obs[p].fs0, Entry(p)) = "link"
    /\ TargetAt(obs[p].fs0, Entry(p)) = Source(p)

ReportedFailures ==
    PreconditionFailures \cup {"Usage", "InvalidFlag", "Cancelled", "SymlinkError"}

\* C8 as claimed: exit status 0 whenever the link is created or the skill is
\* already correctly installed, 1 on every failure
C8_ExitStatusAsClaimed ==
    \A p \in Procs :
        pc[p] = "done" =>
            /\ (LinkCreated(p) \/ AlreadyInstalled(p)) => exitCode[p] = <<0>>
            /\ status[p] \in ReportedFailures => exitCode[p] = <<1>>

\* C8 as amended: exit status 0 exactly when this invocation created the link;
\* 1 on every reported failure, also when the entry was already a link to the
\* resolved source and the overwrite was declined
C8_ExitStatus ==
    \A p \in Procs :
        pc[p] = "done" =>
            /\ exitCode[p] \in {<<0>>, <<1>>}
            /\ (exitCode[p] = <<0>>) = LinkCreated(p)
            /\ status[p] \in ReportedFailures => exitCode[p] = <<1>>
            /\ (AlreadyInstalled(p) /\ obs[p].answer \in NoResponses)
                 => exitCode[p] = <<1>>

\* an already installed skill, overwrite declined, exit status 1
C8_Witness ==
    \E p \in Procs :
        /\ pc[p] = "done" /\ AlreadyInstalled(p)
        /\ obs[p].answer \in NoResponses
        /\ exitCode[p] = <<1>> /\ status[p] = "Cancelled"

\* C9: a link creation that fails after the old entry was removed is reported
\* differently (message, return value, exit status) from one that fails with
\* nothing removed, here the previous invocation's
C9_PostRemovalFailureReportedDistinctly ==
    \A p \in Procs :
        ( /\ pc[p] = "done" /\ obs[p].linkTried /\ ~LinkCreated(p) /\ obs[p].removed
          /\ obs[p].prev.code = <<1>> /\ ~obs[p].prev.removed )
            => <<status[p], result[p], exitCode[p]>>
                 # <<obs[p].prev.status, FALSE, obs[p].prev.code>>

\* C10 as claimed: a returned install leaves the entry a link to the resolved
\* source (success) or as it was (failure); a precondition failure is reported
\* before dest_path is looked at
C10_TerminalStatesAsClaimed ==
    \A p \in Procs :
        Resolved(p) =>
            /\ result[p] => LinkCreated(p)
            /\ ~result[p] => SubTree(fs, Entry(p)) = SubTree(obs[p].fs0, Entry(p))
            /\ status[p] \in PreconditionFailures => ~obs[p].destRead

\* C10 as amended: there is a third terminal state, Absent, when the link
\* creation fails after the confirmed removal
C10_TerminalStates ==
    \A p \in Procs :
        Resolved(p) =>
            /\ result[p] => LinkCreated(p)
            /\ (~result[p] /\ ~obs[p].removed)
                 => SubTree(fs, Entry(p)) = SubTree(obs[p].fs0, Entry(p))
            /\ (~result[p] /\ obs[p].removed)
                 => /\ SubTree(fs, Entry(p)) = {}
                    /\ status[p] = "SymlinkError"
            /\ status[p] \in PreconditionFailures \cup {"Cancelled"}
                 => ~obs[p].removed
            /\ status[p] \in PreconditionFailures => ~obs[p].destRead

\* the third state: the entry was a directory, is gone, and no link replaced it
C10_Witness ==
    \E p \in Procs :
        /\ pc[p] = "done" /\ status[p] = "SymlinkError" /\ obs[p].removed
        /\ KindAt(obs[p].fs0, Entry(p)) = "dir"
        /\ KindAt(fs, Entry(p)) = "absent"

\* C11: the validate command never changes the file system, and its exit
\* status is 0 exactly when the resolved path is a directory and the validator
\* passed it; the validator is called on every directory, with or without
\* SKILL.md, and on nothing else; a missing path, a non-directory, a failed
\* verdict and a missing argument all give exit status 1
C11_ValidateReadsOnly ==
    \A p \in Procs :
        pc[p] \in {"v_resolve", "v_exists", "v_isdir", "v_validate", "v_done"} =>
            /\ fs = obs[p].fs0
            /\ (pc[p] = "v_done" /\ argv[p].n = 0) => exitCode[p] = <<1>>
            /\ (pc[p] = "v_done" /\ argv[p].n = 1 /\ Source(p) # Loop) =>
                 LET isDir == KindAt(fs, Source(p)) = "dir" IN
                 /\ exitCode[p] \in {<<0>>, <<1>>}
                 /\ (exitCode[p] = <<0>>) = (isDir /\ obs[p].verdict = "pass")
                 /\ obs[p].validations = IF isDir THEN 1 ELSE 0
                 /\ (status[p] = "NotFound") = (KindAt(fs, Source(p)) = "absent")
                 /\ (status[p] = "NotADirectory")
                      = (KindAt(fs, Source(p)) \in {"file", "link"})

\* a folder without SKILL.md went to the validator and was passed: exit 0
C11_Witness ==
    \E p \in Procs :
        /\ pc[p] = "v_done" /\ exitCode[p] = <<0>>
        /\ KindAt(fs, Source(p)) = "dir"
        /\ KindAt(fs, Append(Source(p), "SKILL.md")) = "absent"
        /\ obs[p].validations = 1

\* C12: an install command line with fewer than two arguments or with a flag
\* other than --personal / --project ends at once with exit status 1: the
\* invocation is never at any step of install_skill, no path is resolved, the
\* validator is not called, dest_path is not looked at and the file system is
\* what it was
C12_UsageErrorTouchesNothing ==
    \A p \in Procs :
        (pc[p] # "idle"
           /\ (argv[p].n < 2 \/ argv[p].flag \notin {"--personal", "--project"}))
            => /\ pc[p] = "done"
               /\ exitCode[p] = <<1>>
               /\ status[p] = IF argv[p].n < 2 THEN "Usage" ELSE "InvalidFlag"
               /\ skill_path[p] = <<>>
               /\ ~result[p]
               /\ obs[p].validations = 0
               /\ obs[p].verdict = "none"
               /\ ~obs[p].destRead
               /\ ~obs[p].removed
               /\ ~obs[p].linkTried
               /\ fs = obs[p].fs0

\* an unknown flag with a valid skill folder and an occupied registry entry
C12_Witness ==
    \E p \in Procs :
        /\ pc[p] = "done" /\ exitCode[p] = <<1>>
        /\ argv[p] = [n |-> 2, path |-> SrcA, flag |-> "--force"]
        /\ KindAt(fs, Append(SrcA, "SKILL.md")) = "file"
        /\ KindAt(fs, HomeA) = "link"

(***************************************************************************)
(* C13.  The steps of an installation are not atomic with respect to a     *)
(* second installation of the same name.                                   *)
(***************************************************************************)
\* What the existence check found is only remembered, never looked at again.
StaleRemoval(p) == obs[p].removed /\ obs[p].gone # obs[p].seen

\* C13: with two invocations running side by side, the removal step removes
\* whatever entry is at dest_path at the moment it runs -- it does not compare
\* it with the entry its own check and confirmation were about -- and touches
\* nothing else; an entry that has vanished meanwhile makes the step raise and
\* leaves the file system as it is.  Hence one invocation's removal can delete
\* the link the other has just created (C13_Witness).
C13_RemovalIsNotAtomicWithCheck ==
    [][\A p \in Procs :
          (pc[p] = "remove" /\ pc'[p] # "remove") =>
              LET d == Append(Registry(p), Name(skill_path[p])) IN
              IF KindAt(fs, d) = "absent"
              THEN fs' = fs /\ pc'[p] = "done" /\ status'[p] = "Traceback"
              ELSE /\ pc'[p] = "mkdir"
                   /\ SubTree(fs', d) = {}
                   /\ Outside(fs', d) = Outside(fs, d)
                   /\ obs'[p].gone = NodeAt(fs, d)]_vars

\* Invocation 1 checked and was confirmed against the old link to /alt/a;
\* invocation 2 then replaced it by its own link and reported success;
\* invocation 1's removal deleted that new link.
C13_Witness ==
    /\ pc[1] = "mkdir"
    /\ obs[1].seen = LinkNode(AltA)
    /\ obs[1].answer \in YesResponses
    /\ StaleRemoval(1)
    /\ obs[1].gone = LinkNode(skill_path[2])
    /\ skill_path[2] = SrcA
    /\ pc[2] = "done" /\ result[2] /\ exitCode[2] = <<0>>
    /\ KindAt(fs, HomeA) = "absent"

(***************************************************************************)
(* C14.  The order of the precondition checks.                             *)
(***************************************************************************)
CheckOrder == <<"exists", "isdir", "manifest", "validator">>

\* does the source, as it was when the invocation started, pass the check?
Passes(p, check) ==
    LET f0 == obs[p].fs0
        src == Source(p)
    IN  CASE check = "exists" -> KindAt(f0, src) # "absent"
          [] check = "isdir" -> KindAt(f0, src) = "dir"
          [] check = "manifest" -> KindAt(f0, Append(src, "SKILL.md")) # "absent"
          [] check = "validator" -> obs[p].verdict = "pass"

ErrorOf(check) ==
    CASE check = "exists" -> "NotFound"
      [] check = "isdir" -> "NotADirectory"
      [] check = "manifest" -> "MissingManifest"
      [] check = "validator" -> "ValidationFailed"

\* C14: the checks an invocation has made are always an initial part of
\* existence, is-directory, SKILL.md present, validator verdict, each made once
\* and only after all the earlier ones passed; so the validator is invoked at
\* most once and only after the three checks before it passed.  A check that
\* fails ends the checking and its error is the one reported, and a reported
\* precondition error is that of the earliest check the source fails.
C14_ChecksInOrder ==
    \A p \in Procs :
        (Entered(p) /\ Source(p) # Loop) =>
            LET made == obs[p].checks
                n == Len(made)
            IN  /\ n <= Len(CheckOrder)
                /\ \A i \in 1..n : made[i] = CheckOrder[i]
                /\ \A i \in 1..n : i < n => Passes(p, made[i])
                /\ obs[p].validations = IF n = Len(CheckOrder) THEN 1 ELSE 0
                /\ (n > 0 /\ ~Passes(p, made[n]))
                      => status[p] = ErrorOf(made[n]) /\ Returned(p)
                /\ status[p] \in PreconditionFailures
                      => /\ n > 0
                         /\ status[p] = ErrorOf(made[n])
                         /\ ~Passes(p, made[n])
                         /\ \A i \in 1..Len(CheckOrder) :
                                ~Passes(p, CheckOrder[i]) => i >= n

\* /src/a is a plain file: it is not a directory and has no SKILL.md, the
\* validator was never asked and the error is the one of the earlier check
C14_Witness ==
    /\ pc[1] = "done" /\ status[1] = "NotADirectory"
    /\ Source(1) = SrcA
    /\ KindAt(fs, SrcA) = "file"
    /\ ~Passes(1, "isdir") /\ ~Passes(1, "manifest")
    /\ obs[1].checks = <<"exists", "isdir">>
    /\ obs[1].validations = 0

Running(p) == pc[p] \notin {"idle", "done"}
Answered(p) ==
    pc[p] \in {"remove", "exit"} /\ obs[p].answer \in YesResponses \cup NoResponses
Ended(p) == pc[p] = "done" /\ exitCode[p] \in {<<0>>, <<1>>}

\* an answer to the prompt: y, yes, n or no (in any case, blanks around it)
\* ends the prompt; any other answer leaves the invocation at the prompt, with
\* the file system, the outcome and the result as they were, and is counted
\* as one more time the prompt is asked
AnswerStep(p) ==
    (pc[p] = "confirm" /\ obs'[p] # obs[p]) =>
        IF obs'[p].answer \in YesResponses
        THEN pc'[p] = "remove" /\ fs' = fs
        ELSE IF obs'[p].answer \in NoResponses
        THEN pc'[p] = "exit" /\ status'[p] = "Cancelled" /\ fs' = fs
        ELSE /\ pc'[p] = "confirm"
             /\ fs' = fs /\ status'[p] = status[p] /\ result'[p] = result[p]
             /\ exitCode'[p] = <<>>
             /\ obs'[p].reprompts = obs[p].reprompts + 1

\* C16: a started invocation always reaches its end or the prompt; once the
\* prompt is answered with y, yes, n or no the invocation reaches its end, with
\* exit status 0 or 1; an invocation leaves the prompt by such an answer only,
\* every other answer changing nothing and asking again.
C16_EndsOnceAnswered ==
    /\ [][\A p \in Procs : AnswerStep(p)]_vars
    /\ \A p \in Procs : Running(p) ~> (Ended(p) \/ pc[p] = "confirm")
    /\ \A p \in Procs : Answered(p) ~> Ended(p)

\* the prompt was asked a second time after an unusable answer, then answered
\* with a yes, and the invocation has ended
C16_Witness ==
    /\ Ended(1)
    /\ obs[1].reprompts = 1
    /\ obs[1].answer \in YesResponses
    /\ obs[1].removed

(***************************************************************************)
(* C17.  What an installation may change.                                  *)
(***************************************************************************)
RegistryEntries ==
    {<<"home", ".claude", "skills", "a">>, <<"home", ".claude", "skills", "b">>,
     <<"cwd", ".claude", "skills", "a">>}

\* C17: at every moment of an invocation, whatever its outcome, every path that
\* is not the entry <baseDir(S)>/N or below it has the node it had when the
\* invocation started, and every new path is that entry or a directory on the
\* way to the registry of scope S; so the entries of other names and those of
\* the other scope's registry are as they were.  An invocation whose source
\* path cannot be resolved changes nothing.
C17_OnlyTheEntryChanges ==
    \A p \in Procs :
        Entered(p) =>
            LET f0 == obs[p].fs0 IN
            IF Source(p) = Loop THEN fs = f0
            ELSE /\ \A q \in DOMAIN f0 :
                        ~IsPrefix(Entry(p), q) => q \in DOMAIN fs /\ fs[q] = f0[q]
                 /\ \A q \in DOMAIN fs \ DOMAIN f0 :
                        \/ q = Entry(p)
                        \/ IsPrefix(q, Registry(p)) /\ fs[q].kind = "dir"
                 /\ \A e \in RegistryEntries \ {Entry(p)} :
                        SubTree(fs, e) = SubTree(f0, e)

\* /src/a was installed to the personal registry over a real directory "a",
\* next to an entry "b", with the project registry missing: entry "b" is as
\* it was and no project registry has appeared
C17_Witness ==
    /\ pc[1] = "done" /\ result[1]
    /\ Source(1) = SrcA /\ Entry(1) = HomeA
    /\ KindAt(obs[1].fs0, HomeA) = "dir"
    /\ SubTree(fs, HomeA) = {<<HomeA, LinkNode(SrcA)>>}
    /\ SubTree(fs, HomeB) = {<<HomeB, LinkNode(AltA)>>}
    /\ KindAt(fs, <<"cwd", ".claude">>) = "absent"

(***************************************************************************)
(* C18.  A reported success and the link it leaves.                        *)
(***************************************************************************)
\* C18: when install_skill has returned True, the entry is a link that does not
\* point to itself and whose target is an existing directory holding SKILL.md
C18_SuccessMeansUsableLink ==
    \A p \in Procs :
        (Resolved(p) /\ result[p]) =>
            LET target == TargetAt(fs, Entry(p)) IN
            /\ KindAt(fs, Entry(p)) = "link"
            /\ target # Entry(p)
            /\ KindAt(fs, target) = "dir"
            /\ KindAt(fs, Append(target, "SKILL.md")) = "file"

====
